---- MODULE Spec2Model ----
(***************************************************************************)
(* A model of dicom_pseudon.py: the Index class (the sqlite table of       *)
(* accession numbers), DicomPseudon.check_quarantine, the white list and   *)
(* clean, create_index and run.                                            *)
(*                                                                         *)
(* Text is a sequence of one-character strings, so that strip, lower,      *)
(* re.sub, the "in" substring test and LIKE are computed, not assumed.     *)
(***************************************************************************)
EXTENDS Integers, Sequences, FiniteSets, TLC

VARIABLES
    ds,         \* the record (pydicom dataset) in hand: tag -> value
    verdict,    \* what check_quarantine / the attribute walk gave for ds
    white_list, \* DicomPseudon.white_list, as parse_white_list built it
    db,         \* Index.db: the connection and the accession_numbers table
    call,       \* the last Index method called, its arguments and outcome
    touched,    \* originals an insert or update was ever called with
    files,      \* the files os.walk finds under ident_dir, in walk order
    links,      \* the rows of the links file
    pos,        \* how many files walk_dicoms has gone through
    linkPos,    \* how many rows of the links file create_index has read
    invitation_num_set, \* create_index's set of fragments seen
    pc,         \* where create_index / run stands
    ret,        \* what create_index / run returned or raised
    out,        \* files written under the clean root, in order
    quarantined,\* files copied to the quarantine root, in order
    closes,     \* how many times close_all ran
    trail,      \* per file, the steps run took on its record
    ds0         \* the record in hand as the reader gave it

vars == <<ds0, ds, verdict, white_list, db, call, touched, files, links, pos,
          linkPos, invitation_num_set, pc, ret, out, quarantined, closes,
          trail>>

(***************************************************************************)
(* Text                                                                    *)
(***************************************************************************)
UpperCase == <<"A","B","C","D","E","F","G","H","I","J","K","L","M",
               "N","O","P","Q","R","S","T","U","V","W","X","Y","Z">>
LowerCase == <<"a","b","c","d","e","f","g","h","i","j","k","l","m",
               "n","o","p","q","r","s","t","u","v","w","x","y","z">>

\* str.lower() on one character
LowerChar(c) ==
    IF \E i \in DOMAIN UpperCase : UpperCase[i] = c
    THEN LowerCase[CHOOSE i \in DOMAIN UpperCase : UpperCase[i] = c]
    ELSE c

\* str.lower()
Lower(s) == [i \in DOMAIN s |-> LowerChar(s[i])]

IsSpace(c) == c \in {" ", "\t", "\n"}

RECURSIVE LStrip(_)
LStrip(s) ==
    IF s = <<>> THEN s
    ELSE IF IsSpace(Head(s)) THEN LStrip(Tail(s)) ELSE s

RECURSIVE RStrip(_)
RStrip(s) ==
    IF s = <<>> THEN s
    ELSE IF IsSpace(s[Len(s)]) THEN RStrip(SubSeq(s, 1, Len(s) - 1)) ELSE s

\* str.strip()
Strip(s) == RStrip(LStrip(s))

\* Python's  sub in s  on text
Contains(sub, s) ==
    \E i \in 0..(Len(s) - Len(sub)) : SubSeq(s, i + 1, i + Len(sub)) = sub

\* str.startswith
StartsWith(s, prefix) ==
    Len(prefix) <= Len(s) /\ SubSeq(s, 1, Len(prefix)) = prefix

(***************************************************************************)
(* Tags and values                                                         *)
(***************************************************************************)
ACCESSION_NUMBER == <<8, 80>>            \* (0x8, 0x50)
SERIES_DESCR == <<8, 4158>>              \* (0x8, 0x103E)
MODALITY == <<8, 96>>                    \* (0x8, 0x60)
BURNT_IN == <<40, 769>>                  \* (0x28, 0x301)
IMAGE_TYPE == <<8, 8>>                   \* (0x8, 0x8)
MANUFACTURER == <<8, 112>>               \* (0x8, 0x70)
MANUFACTURER_MODEL_NAME == <<8, 4240>>   \* (0x8, 0x1090)
IDENTITY_REMOVED == <<18, 98>>           \* (0x12, 0x62)
DEIDENT_METHOD == <<18, 99>>             \* (0x12, 0x63)

\* the keys of ALLOWED_FILE_META
ALLOWED_FILE_META ==
    {<<2, 0>>, <<2, 1>>, <<2, 2>>, <<2, 3>>, <<2, 16>>, <<2, 18>>, <<2, 19>>}

\* A data element's value: None, one text, or several (a MultiValue).
None == [null |-> TRUE, vals |-> <<>>]
Str(s) == [null |-> FALSE, vals |-> <<s>>]
Multi(m) == [null |-> FALSE, vals |-> m]

\* DataElement.VM as the branches  VM == 1  of check_quarantine read it: a
\* value that is None or one text counts as one value.
VM(v) == IF v.null THEN 1 ELSE Len(v.vals)

\* Whether  v.strip()  can be called: v is one text (None and a MultiValue
\* have no strip and raise AttributeError).
IsText(v) == ~v.null /\ Len(v.vals) = 1

Text(v) == v.vals[1]

(***************************************************************************)
(* check_quarantine                                                        *)
(***************************************************************************)
t_patient_protocol ==
    <<"p","a","t","i","e","n","t"," ","p","r","o","t","o","c","o","l">>
t_save == <<"s","a","v","e">>
t_yes == <<"y","e","s">>
t_y == <<"y">>
t_nai == <<"n","o","r","t","h"," ","a","m","e","r","i","c","a","n"," ",
           "i","m","a","g","i","n","g",","," ","i","n","c">>
t_pacsgear == <<"p","a","c","s","g","e","a","r">>
t_dicom_box == <<"t","h","e"," ","d","i","c","o","m"," ","b","o","x">>
t_mr == <<"m","r">>
t_ct == <<"c","t">>

\* self.modalities: the default ['mr', 'ct'], lower-cased
modalities == {Lower(t_mr), Lower(t_ct)}

Continue == [kind |-> "continue", move |-> FALSE, reason |-> ""]
Return(move, reason) == [kind |-> "return", move |-> move, reason |-> reason]
Raise(exc) == [kind |-> "raise", move |-> FALSE, reason |-> exc]

\* the list the  for  loops of check_quarantine go over
Members(v) == IF VM(v) = 1 THEN (IF v.null THEN <<None>> ELSE <<Str(Text(v))>>)
              ELSE [i \in DOMAIN v.vals |-> Str(v.vals[i])]

\* lines 151-156
SeriesDescrBlock(d) ==
    IF SERIES_DESCR \in DOMAIN d /\ ~d[SERIES_DESCR].null
    THEN IF ~IsText(d[SERIES_DESCR]) THEN Raise("AttributeError")
         ELSE LET series_desc == Lower(Strip(Text(d[SERIES_DESCR])))
              IN  IF Contains(t_patient_protocol, series_desc)
                  THEN Return(TRUE, "patient protocol")
                  ELSE IF Contains(t_save, series_desc)
                       THEN Return(TRUE, "Likely screen capture")
                       ELSE Continue
    ELSE Continue

\* lines 158-164
ModalityBlock(d) ==
    IF MODALITY \in DOMAIN d
    THEN LET modality == Members(d[MODALITY])
         IN  IF \E i \in DOMAIN modality :
                    modality[i].null \/ Lower(Text(modality[i])) \notin modalities
             THEN Return(TRUE, "modality not allowed")
             ELSE Continue
    ELSE Continue

\* lines 166-167
ModalityMissingBlock(d) ==
    IF MODALITY \notin DOMAIN d THEN Return(TRUE, "Modality missing")
    ELSE Continue

\* lines 169-172
BurntInBlock(d) ==
    IF BURNT_IN \in DOMAIN d /\ ~d[BURNT_IN].null
    THEN IF ~IsText(d[BURNT_IN]) THEN Raise("AttributeError")
         ELSE IF Lower(Strip(Text(d[BURNT_IN]))) \in {t_yes, t_y}
              THEN Return(TRUE, "burnt-in data")
              ELSE Continue
    ELSE Continue

\* lines 174-180
ImageTypeBlock(d) ==
    IF IMAGE_TYPE \in DOMAIN d
    THEN LET image_type == Members(d[IMAGE_TYPE])
         IN  IF \E i \in DOMAIN image_type :
                    /\ ~image_type[i].null
                    /\ Contains(t_save, Lower(Strip(Text(image_type[i]))))
             THEN Return(TRUE, "Likely screen capture")
             ELSE Continue
    ELSE Continue

\* lines 182-185
ManufacturerBlock(d) ==
    IF MANUFACTURER \in DOMAIN d
    THEN IF ~IsText(d[MANUFACTURER]) THEN Raise("AttributeError")
         ELSE LET manufacturer == Lower(Strip(Text(d[MANUFACTURER])))
              IN  IF Contains(t_nai, manufacturer)
                     \/ Contains(t_pacsgear, manufacturer)
                  THEN Return(TRUE, "Manufacturer is suspect")
                  ELSE Continue
    ELSE Continue

\* lines 187-190
ModelNameBlock(d) ==
    IF MANUFACTURER_MODEL_NAME \in DOMAIN d
    THEN IF ~IsText(d[MANUFACTURER_MODEL_NAME]) THEN Raise("AttributeError")
         ELSE IF Contains(t_dicom_box,
                          Lower(Strip(Text(d[MANUFACTURER_MODEL_NAME]))))
              THEN Return(TRUE, "Manufacturer model name is suspect")
              ELSE Continue
    ELSE Continue

RECURSIVE FirstOutcome(_)
\* the first block that returns or raises ends the function
FirstOutcome(blocks) ==
    IF blocks = <<>> THEN Return(FALSE, "")
    ELSE IF Head(blocks) # Continue THEN Head(blocks)
         ELSE FirstOutcome(Tail(blocks))

\* a check_quarantine that looks at the modality before the series description
check_quarantine_modality_first(d) ==
    FirstOutcome(<<ModalityBlock(d), ModalityMissingBlock(d),
                   SeriesDescrBlock(d), BurntInBlock(d), ImageTypeBlock(d),
                   ManufacturerBlock(d), ModelNameBlock(d)>>)

check_quarantine(d) ==
    FirstOutcome(<<SeriesDescrBlock(d), ModalityBlock(d),
                   ModalityMissingBlock(d), BurntInBlock(d),
                   ImageTypeBlock(d), ManufacturerBlock(d),
                   ModelNameBlock(d)>>)

(***************************************************************************)
(* Index: the sqlite table accession_numbers(id, original, serial).        *)
(* A column holds None (NULL) or a text, as Str(text).  rows is the table  *)
(* in id order.                                                            *)
(***************************************************************************)
\* Index.__init__ on a fresh file: the connection is open, no table yet
NewIndex == [open |-> TRUE, table |-> FALSE, rows |-> <<>>]

\* the outcome of an Index method: the value returned, or the exception
Returns(v) == [kind |-> "return", value |-> v, exc |-> ""]
Raises(e) == [kind |-> "raise", value |-> None, exc |-> e]

\* Index.close
IndexClose(d) == [d EXCEPT !.open = FALSE]

\* Index.table_exists, on an open connection
table_exists(d) == d.table

\* SQL  a = b : never true of NULL
SqlEq(a, b) == ~a.null /\ ~b.null /\ a = b

RECURSIVE Like(_, _)
\* sqlite's  s LIKE p  on text: % is any run of characters, _ is any one
\* character, and letters match without regard to case (the default, no
\* PRAGMA case_sensitive_like and no ESCAPE in SEARCH)
Like(p, s) ==
    IF p = <<>> THEN s = <<>>
    ELSE IF Head(p) = "%"
         THEN Like(Tail(p), s) \/ (s # <<>> /\ Like(p, Tail(s)))
         ELSE /\ s # <<>>
              /\ \/ Head(p) = "_"
                 \/ LowerChar(Head(p)) = LowerChar(Head(s))
              /\ Like(Tail(p), Tail(s))

\* original LIKE ? : never true of NULL
SqlLike(pattern, original) ==
    ~pattern.null /\ ~original.null /\ Like(Text(pattern), Text(original))

\* lines 61-68
IndexGet(d, original) ==
    IF ~d.open THEN Raises("ProgrammingError")
    ELSE IF ~table_exists(d) THEN Returns(None)
    ELSE LET results == SelectSeq(d.rows, LAMBDA r : SqlEq(r.original, original))
         IN  IF Len(results) > 0 THEN Returns(results[1].serial)
             ELSE Returns(None)

\* lines 70-77: the outcomes of search.  SEARCH has no ORDER BY, so
\* results[0] is any of the matching rows.
IndexSearch(d, pattern) ==
    IF ~d.open THEN {Raises("ProgrammingError")}
    ELSE IF ~table_exists(d) THEN {Returns(None)}
    ELSE LET results == {i \in DOMAIN d.rows : SqlLike(pattern, d.rows[i].original)}
         IN  IF results # {} THEN {Returns(d.rows[i].original) : i \in results}
             ELSE {Returns(None)}

\* a plain INSERT with no uniqueness: every insert adds a row
InsertAlways(rows, original) ==
    Append(rows, [original |-> original, serial |-> None])

\* INSERT OR REPLACE: the row of the original is replaced by a new row
InsertOrReplace(rows, original) ==
    Append(SelectSeq(rows, LAMBDA r : ~SqlEq(r.original, original)),
           [original |-> original, serial |-> None])

\* INSERT OR IGNORE under UNIQUE(original): a row whose original is already
\* there is not added (NULLs never conflict)
InsertOrIgnore(rows, original) ==
    IF \E i \in DOMAIN rows : SqlEq(rows[i].original, original) THEN rows
    ELSE Append(rows, [original |-> original, serial |-> None])

\* lines 79-85: the database after insert
IndexInsertDb(d, original) ==
    IF d.open
    THEN [d EXCEPT !.table = TRUE, !.rows = InsertOrIgnore(d.rows, original)]
    ELSE d

IndexInsert(d, original) ==
    IF ~d.open THEN Raises("ProgrammingError") ELSE Returns(None)

\* an UPDATE that sets nothing
UpdateRowsLost(rows, original, serial) == rows

\* an UPDATE without its WHERE: every row is given the serial
UpdateEveryRow(rows, original, serial) ==
    [i \in DOMAIN rows |-> [rows[i] EXCEPT !.serial = serial]]

\* UPDATE ... SET serial = ? WHERE original = ?
UpdateRows(rows, original, serial) ==
    [i \in DOMAIN rows |->
        IF SqlEq(rows[i].original, original)
        THEN [rows[i] EXCEPT !.serial = serial] ELSE rows[i]]

\* lines 87-89: the database after update
IndexUpdateDb(d, original, serial) ==
    IF d.open /\ d.table
    THEN [d EXCEPT !.rows = UpdateRows(d.rows, original, serial)] ELSE d

IndexUpdate(d, original, serial) ==
    IF ~d.open THEN Raises("ProgrammingError")
    ELSE IF ~d.table THEN Raises("OperationalError")
    ELSE Returns(None)

(***************************************************************************)
(* The white list and the attribute filter                                 *)
(***************************************************************************)
HexDigits == <<"0","1","2","3","4","5","6","7","8","9","a","b","c","d","e","f">>

HexVal(c) == (CHOOSE i \in DOMAIN HexDigits : HexDigits[i] = LowerChar(c)) - 1

RECURSIVE HexToInt(_)
\* int(a, 16) on hexadecimal digits
HexToInt(a) ==
    IF a = <<>> THEN 0
    ELSE HexToInt(SubSeq(a, 1, Len(a) - 1)) * Len(HexDigits) + HexVal(a[Len(a)])

RECURSIVE Split(_, _)
\* str.split(sep) for a one-character separator
Split(s, sep) ==
    IF \E i \in DOMAIN s : s[i] = sep
    THEN LET i == CHOOSE k \in DOMAIN s :
                      s[k] = sep /\ \A j \in 1..(k - 1) : s[j] # sep
         IN  <<SubSeq(s, 1, i - 1)>> \o Split(SubSeq(s, i + 1, Len(s)), sep)
    ELSE <<s>>

\* re.sub('[-_,.]', '', s)
RemovePunctuation(s) == SelectSeq(s, LAMBDA c : c \notin {"-", "_", ",", "."})

RECURSIVE CollapseSpaces(_)
\* re.sub(' +', ' ', s)
CollapseSpaces(s) ==
    IF Len(s) <= 1 THEN s
    ELSE IF s[1] = " " /\ s[2] = " " THEN CollapseSpaces(Tail(s))
         ELSE <<s[1]>> \o CollapseSpaces(Tail(s))

\* lines 200 and 207: re.sub(' +', ' ', re.sub('[-_,.]', '', x.strip().lower()))
Normalize(x) == CollapseSpaces(RemovePunctuation(Lower(Strip(x))))

\* the tag a key "G,E" of the white list file stands for (lines 198-199)
ParseTag(key) ==
    LET ab == Split(key, ",") IN <<HexToInt(ab[1]), HexToInt(ab[2])>>

\* lines 195-201.  h is the white list file's object, as the sequence of its
\* members [key, allowed]; a later member with the same tag replaces an
\* earlier one.
parse_white_list(h) ==
    [t \in {ParseTag(h[i].key) : i \in DOMAIN h} |->
        LET last == CHOOSE i \in DOMAIN h :
                        /\ ParseTag(h[i].key) = t
                        /\ \A j \in DOMAIN h : ParseTag(h[j].key) = t => j <= i
        IN  [k \in DOMAIN h[last].allowed |-> Normalize(h[last].allowed[k])]]

t_None == <<"N","o","n","e">>

RECURSIVE JoinQuoted(_)
\* "'a', 'b'" for the members a, b
JoinQuoted(m) ==
    IF m = <<>> THEN <<>>
    ELSE <<"'">> \o Head(m) \o <<"'">>
         \o (IF Len(m) > 1 THEN <<",", " ">> \o JoinQuoted(Tail(m)) ELSE <<>>)

\* str(e.value): the text itself, 'None', or a MultiValue's "['a', 'b']"
PyStr(v) ==
    IF v.null THEN t_None
    ELSE IF Len(v.vals) = 1 THEN Text(v)
    ELSE <<"[">> \o JoinQuoted(v.vals) \o <<"]">>

InList(x, list) == \E i \in DOMAIN list : list[i] = x

\* a white_list_handler that compares the value as it stands
white_list_handler_raw(w, tag, v) ==
    IF tag \in DOMAIN w /\ w[tag] # <<>>
    THEN InList(<<"*">>, w[tag]) \/ InList(PyStr(v), w[tag])
    ELSE FALSE

\* lines 203-211
white_list_handler(w, tag, v) ==
    IF tag \in DOMAIN w /\ w[tag] # <<>>
    THEN IF ~InList(<<"*">>, w[tag]) /\ ~InList(Normalize(PyStr(v)), w[tag])
         THEN FALSE
         ELSE TRUE
    ELSE FALSE

Del(d, tag) == [t \in DOMAIN d \ {tag} |-> d[t]]

\* a clean that asks the white list about every element
clean_by_white_list_only(w, d, tag) ==
    IF ~white_list_handler(w, tag, d[tag]) THEN Del(d, tag) ELSE d

\* lines 213-228: the dataset after clean(ds, e) for the element e at tag
clean(w, d, tag) ==
    IF tag = ACCESSION_NUMBER THEN d
    ELSE IF tag \in ALLOWED_FILE_META THEN d
    ELSE IF ~white_list_handler(w, tag, d[tag]) THEN Del(d, tag)
    ELSE d

TagLess(a, b) == a[1] < b[1] \/ (a[1] = b[1] /\ a[2] < b[2])

RECURSIVE SortedTags(_)
\* sorted(ds.keys())
SortedTags(S) ==
    IF S = {} THEN <<>>
    ELSE LET m == CHOOSE t \in S : \A u \in S : u = t \/ TagLess(t, u)
         IN  <<m>> \o SortedTags(S \ {m})

RECURSIVE WalkTagsLive(_, _, _)
\* a walk over the live tags instead of a snapshot: after a removal the
\* element that follows is passed over
WalkTagsLive(w, d, taglist) ==
    IF taglist = <<>> THEN d
    ELSE LET d2 == clean(w, d, Head(taglist))
         IN  IF d2 # d /\ Len(taglist) > 1
             THEN WalkTagsLive(w, d2, Tail(Tail(taglist)))
             ELSE WalkTagsLive(w, d2, Tail(taglist))

RECURSIVE WalkTags(_, _, _)
WalkTags(w, d, taglist) ==
    IF taglist = <<>> THEN d
    ELSE WalkTags(w, clean(w, d, Head(taglist)), Tail(taglist))

\* line 237: ds.walk(partial(self.clean)), which calls clean on each element of
\* a sorted snapshot of the tags
walk(w, d) == WalkTags(w, d, SortedTags(DOMAIN d))

(***************************************************************************)
(* Records for the rule engine and the filter                              *)
(***************************************************************************)
\* The dataset with the elements given as <<tag, <<>> >> (absent) or
\* <<tag, <<value>> >>.
MkDs(elems) ==
    LET present == {i \in DOMAIN elems : elems[i][2] # <<>>}
    IN  [t \in {elems[i][1] : i \in present} |->
            elems[CHOOSE i \in present : elems[i][1] = t][2][1]]

PATIENT_NAME == <<16, 16>>               \* (0x10, 0x10)
TRANSFER_SYNTAX == <<2, 16>>             \* (0x2, 0x10)

SeriesDescrValues ==
    {<<>>, <<None>>, <<Str(<<"T","1">>)>>, <<Str(<<"S","a","v","e"," ","S","c","r","e","e","n">>)>>,
     <<Str(<<" ","P","a","t","i","e","n","t"," ","P","r","o","t","o","c","o","l">>)>>, <<Str(<<"p","a","t","i","e","n","t"," ","p","r","o","t","o","c","o","l"," ","s","a","v","e">>)>>,
     <<Multi(<<<<"T","1">>, <<"s","a","v","e">>>>)>>, <<Multi(<<<<"T","1">>, <<"T","2">>>>)>>}
ModalityValues ==
    {<<>>, <<None>>, <<Str(<<"M","R">>)>>, <<Str(<<"c","t">>)>>, <<Str(<<"U","S">>)>>,
     <<Multi(<<<<"M","R">>, <<"C","T">>>>)>>, <<Multi(<<<<"M","R">>, <<"U","S">>>>)>>,
     <<Str(<<" ","m","r">>)>>, <<Multi(<<<<"C","T"," ">>, <<"M","R">>>>)>>}
BurntInValues ==
    {<<>>, <<None>>, <<Str(<<"Y","E","S">>)>>, <<Str(<<" ","y"," ">>)>>, <<Str(<<"N","O">>)>>}
ImageTypeValues ==
    {<<>>, <<None>>, <<Str(<<"O","R","I","G","I","N","A","L">>)>>, <<Str(<<"S","c","r","e","e","n"," ","S","a","v","e">>)>>,
     <<Multi(<<<<"O","R","I","G","I","N","A","L">>, <<"S","A","V","E">>>>)>>}
ManufacturerValues ==
    {<<>>, <<None>>, <<Str(<<"A","C","M","E">>)>>, <<Str(<<"P","A","C","S","G","E","A","R"," ","I","n","c">>)>>,
     <<Str(<<"N","o","r","t","h"," ","A","m","e","r","i","c","a","n"," ","I","m","a","g","i","n","g",","," ","I","n","c",".">>)>>}
ModelNameValues ==
    {<<>>, <<None>>, <<Str(<<"T","h","e"," ","D","I","C","O","M"," ","B","o","x">>)>>, <<Str(<<"X","1">>)>>}

\* the records check_quarantine is tried on
QRecords ==
    {MkDs(<<<<SERIES_DESCR, sd>>, <<MODALITY, mo>>, <<BURNT_IN, bi>>,
            <<IMAGE_TYPE, it>>, <<MANUFACTURER, ma>>,
            <<MANUFACTURER_MODEL_NAME, mn>>>>) :
        sd \in SeriesDescrValues, mo \in ModalityValues, bi \in BurntInValues,
        it \in ImageTypeValues, ma \in ManufacturerValues,
        mn \in ModelNameValues}

\* no other file-meta element, or one of the other six
FileMetaChoices ==
    {<<<<2, 0>>, <<>>>>} \cup
    {<<t, <<Str(<<"1">>)>>>> : t \in ALLOWED_FILE_META \ {TRANSFER_SYNTAX}}

\* the records the filter is tried on
FRecords ==
    {MkDs(<<<<ACCESSION_NUMBER, ac>>, <<TRANSFER_SYNTAX, ts>>, fm,
            <<MODALITY, mo>>, <<SERIES_DESCR, sd>>, <<PATIENT_NAME, pn>>>>) :
        fm \in FileMetaChoices,
        ac \in {<<>>, <<Str(<<"A","1">>)>>},
        ts \in {<<>>, <<Str(<<"1",".","2">>)>>},
        mo \in {<<>>, <<None>>, <<Str(<<"M","R">>)>>, <<Str(<<" ","M",".","R"," ">>)>>, <<Str(<<"U","S">>)>>,
                <<Multi(<<<<"M","R">>, <<"C","T">>>>)>>},
        sd \in {<<>>, <<Str(<<"H","e","a","d"," "," ","S","c","a","n">>)>>, <<Str(<<"h","e","a","d","-","s","c","a","n">>)>>, <<Str(<<"-"," ","T","1">>)>>},
        pn \in {<<>>, <<Str(<<"D","o","e","^","J">>)>>}}

\* white list files
WhiteListFiles ==
    {<<>>,
     <<[key |-> <<"8",",","6","0">>, allowed |-> <<<<"M","R">>, <<"C","T">>>>]>>,
     <<[key |-> <<"0","0","0","8",",","0","0","6","0">>, allowed |-> <<<<"m","_","r">>, <<"[","'","M","R","'"," ","'","C","T","'","]">>>>],
       [key |-> <<"8",",","1","0","3","E">>, allowed |-> <<<<"H","e","a","d"," ","S","c","a","n">>, <<"n","o","n","e">>>>]>>,
     <<[key |-> <<"8",",","1","0","3","e">>, allowed |-> <<<<"*">>>>],
       [key |-> <<"8",",","6","0">>, allowed |-> <<>>]>>,
     <<[key |-> <<"8",",","5","0">>, allowed |-> <<<<"z","z">>>>],
       [key |-> <<"2",",","1","0">>, allowed |-> <<<<"z","z">>>>],
       [key |-> <<"8",",","6","0">>, allowed |-> <<<<"U","S">>>>],
       [key |-> <<"0","0","0","8",",","0","0","6","0">>, allowed |-> <<<<"n","o","n","e">>, <<" ","T","1">>>>],
       [key |-> <<"8",",","1","0","3","e">>, allowed |-> <<<<" ","T","1">>, <<"h","e","a","d","s","c","a","n">>>>]>>}

(***************************************************************************)
(* The rule engine and the filter as functions: a record (and a white      *)
(* list) is drawn, and the function is applied to it.                      *)
(***************************************************************************)
Idle == [kind |-> "none", value |-> None, exc |-> ""]
NoCall == [op |-> "none", original |-> None, serial |-> None,
           pattern |-> None, result |-> Idle]

\* what create_index / run gave its caller: nothing yet, a value ("None",
\* "True", "False") or an exception that nothing caught
NotReturned == [kind |-> "none", value |-> "", exc |-> ""]
Returned(v) == [kind |-> "return", value |-> v, exc |-> ""]
Raised(e) == [kind |-> "raise", value |-> "", exc |-> e]

\* what a specification that does not walk files leaves fixed
NoFiles ==
    /\ files = <<>> /\ links = <<>> /\ pos = 0 /\ linkPos = 0
    /\ invitation_num_set = {} /\ ret = NotReturned /\ out = <<>>
    /\ quarantined = <<>> /\ closes = 0 /\ trail = <<>>

NoIndexUse == db = NewIndex /\ call = NoCall /\ touched = {}

InitQ ==
    /\ ds0 \in QRecords /\ ds = ds0 /\ verdict = Continue
    /\ white_list \in {parse_white_list(<<>>),
                       parse_white_list(<<[key |-> <<"8",",","1","0","3","e">>, allowed |-> <<<<"*">>>>]>>)}
    /\ pc = "check_quarantine"
    /\ NoIndexUse /\ NoFiles

ApplyCheckQuarantine ==
    /\ pc = "check_quarantine"
    /\ verdict' = check_quarantine(ds)
    /\ pc' = "checked"
    /\ UNCHANGED <<ds0, ds, white_list, db, call, touched, files, links, pos,
                   linkPos, invitation_num_set, ret, out, quarantined, closes,
                   trail>>

NextQ == ApplyCheckQuarantine

SpecQ == InitQ /\ [][NextQ]_vars

InitF ==
    /\ ds0 \in FRecords /\ ds = ds0 /\ verdict = Continue
    /\ white_list \in {parse_white_list(h) : h \in WhiteListFiles}
    /\ pc = "walk"
    /\ NoIndexUse /\ NoFiles

\* ds.walk(partial(self.clean)) on the drawn record
ApplyWalk ==
    /\ pc = "walk"
    /\ ds' = walk(white_list, ds)
    /\ pc' = "walked"
    /\ UNCHANGED <<ds0, verdict, white_list, db, call, touched, files, links,
                   pos, linkPos, invitation_num_set, ret, out, quarantined,
                   closes, trail>>

NextF == ApplyWalk

SpecF == InitF /\ [][NextF]_vars

(***************************************************************************)
(* C3: the order of the quarantine rules                                   *)
(***************************************************************************)
\* the text a rule compares: lower-cased, trimmed
Folded(d, tag) == Lower(Strip(Text(d[tag])))

HasText(d, tag) == tag \in DOMAIN d /\ IsText(d[tag])

\* rule k of the seven matches the record
RuleMatches(k, d) ==
    CASE k = 1 -> HasText(d, SERIES_DESCR)
                  /\ Contains(t_patient_protocol, Folded(d, SERIES_DESCR))
      [] k = 2 -> HasText(d, SERIES_DESCR)
                  /\ Contains(t_save, Folded(d, SERIES_DESCR))
      [] k = 3 -> \/ MODALITY \notin DOMAIN d
                  \/ d[MODALITY].null
                  \/ \E i \in DOMAIN d[MODALITY].vals :
                        Lower(d[MODALITY].vals[i]) \notin {t_mr, t_ct}
      [] k = 4 -> HasText(d, BURNT_IN) /\ Folded(d, BURNT_IN) \in {t_yes, t_y}
      [] k = 5 -> /\ IMAGE_TYPE \in DOMAIN d
                  /\ \E i \in DOMAIN d[IMAGE_TYPE].vals :
                        Contains(t_save, Lower(Strip(d[IMAGE_TYPE].vals[i])))
      [] k = 6 -> HasText(d, MANUFACTURER)
                  /\ \/ Contains(t_nai, Folded(d, MANUFACTURER))
                     \/ Contains(t_pacsgear, Folded(d, MANUFACTURER))
      [] k = 7 -> HasText(d, MANUFACTURER_MODEL_NAME)
                  /\ Contains(t_dicom_box, Folded(d, MANUFACTURER_MODEL_NAME))

RuleVerdict(k, d) ==
    CASE k = 1 -> Return(TRUE, "patient protocol")
      [] k = 2 -> Return(TRUE, "Likely screen capture")
      [] k = 3 -> IF MODALITY \in DOMAIN d
                  THEN Return(TRUE, "modality not allowed")
                  ELSE Return(TRUE, "Modality missing")
      [] k = 4 -> Return(TRUE, "burnt-in data")
      [] k = 5 -> Return(TRUE, "Likely screen capture")
      [] k = 6 -> Return(TRUE, "Manufacturer is suspect")
      [] k = 7 -> Return(TRUE, "Manufacturer model name is suspect")

Rules == 1..7

\* the verdict of the first rule that matches, not-quarantined if none does
FirstMatchVerdict(d) ==
    IF \E k \in Rules : RuleMatches(k, d)
    THEN RuleVerdict(CHOOSE k \in Rules :
                        RuleMatches(k, d) /\ \A j \in 1..(k - 1) : ~RuleMatches(j, d),
                     d)
    ELSE Return(FALSE, "")

\* rule k cannot be evaluated on the record: the value it reads as one text
\* is a multi-valued one or (manufacturer, model name) null
RuleBreaks(k, d) ==
    CASE k \in {1, 2} -> SERIES_DESCR \in DOMAIN d /\ ~d[SERIES_DESCR].null
                         /\ ~IsText(d[SERIES_DESCR])
      [] k = 4 -> BURNT_IN \in DOMAIN d /\ ~d[BURNT_IN].null /\ ~IsText(d[BURNT_IN])
      [] k = 6 -> MANUFACTURER \in DOMAIN d /\ ~IsText(d[MANUFACTURER])
      [] k = 7 -> MANUFACTURER_MODEL_NAME \in DOMAIN d
                  /\ ~IsText(d[MANUFACTURER_MODEL_NAME])
      [] OTHER -> FALSE

\* a rule breaks before any rule matches
BreaksFirst(d) ==
    \E k \in Rules : RuleBreaks(k, d) /\ \A j \in 1..(k - 1) : ~RuleMatches(j, d)

SeriesDescrSaysSave(d) ==
    HasText(d, SERIES_DESCR) /\ Contains(t_save, Folded(d, SERIES_DESCR))

Allows(w, tag, v) ==
    /\ tag \in DOMAIN w
    /\ LET set == {w[tag][i] : i \in DOMAIN w[tag]}
       IN  <<"*">> \in set \/ Normalize(PyStr(v)) \in set

\* C1: after the filter every attribute still in the record is the identifier,
\* a file-meta attribute or one the white list allows for its normalized value,
\* and every attribute removed is one the white list does not allow; what is
\* kept is kept unchanged.
C1_FilterKeepsAllowed ==
    pc = "walked" =>
        /\ DOMAIN ds \subseteq DOMAIN ds0
        /\ \A tag \in DOMAIN ds :
              /\ ds[tag] = ds0[tag]
              /\ \/ tag = ACCESSION_NUMBER
                 \/ tag \in ALLOWED_FILE_META
                 \/ Allows(white_list, tag, ds0[tag])
        /\ \A tag \in DOMAIN ds0 \ DOMAIN ds :
              ~Allows(white_list, tag, ds0[tag])

\* a filtered record that kept a value only its normalized form allows, and
\* lost another attribute
C1_Witness ==
    /\ pc = "walked"
    /\ \E tag \in DOMAIN ds :
          /\ tag # ACCESSION_NUMBER /\ tag \notin ALLOWED_FILE_META
          /\ ~InList(PyStr(ds[tag]), white_list[tag])
          /\ ~InList(<<"*">>, white_list[tag])
    /\ DOMAIN ds # DOMAIN ds0

(***************************************************************************)
(* The Index on its own: any sequence of insert, update, get and search    *)
(* on a fresh index file.  Originals and serials are texts.                *)
(***************************************************************************)
Originals == {<<"A","1">>, <<"a","b">>, <<"B","2">>}
Serials == {<<"S","1">>, <<"S","2">>}
Fragments == {<<"1">>, <<"a">>, <<"_">>, <<"Z">>}

InitI ==
    /\ db = NewIndex /\ call = NoCall /\ touched = {}
    /\ ds0 = MkDs(<<>>) /\ ds = ds0 /\ verdict = Continue
    /\ white_list = parse_white_list(<<>>)
    /\ pc = "index"
    /\ NoFiles

IndexFrame ==
    UNCHANGED <<ds0, ds, verdict, white_list, files, links, pos, linkPos,
                invitation_num_set, pc, ret, out, quarantined, closes, trail>>

Insert(original) ==
    /\ pc = "index"
    /\ call' = [op |-> "insert", original |-> Str(original), serial |-> None,
                pattern |-> None, result |-> IndexInsert(db, Str(original))]
    /\ db' = IndexInsertDb(db, Str(original))
    /\ touched' = touched \cup {original}
    /\ IndexFrame

Update(original, serial) ==
    /\ pc = "index"
    /\ call' = [op |-> "update", original |-> Str(original),
                serial |-> Str(serial), pattern |-> None,
                result |-> IndexUpdate(db, Str(original), Str(serial))]
    /\ db' = IndexUpdateDb(db, Str(original), Str(serial))
    /\ touched' = touched \cup {original}
    /\ IndexFrame

Get(original) ==
    /\ pc = "index"
    /\ call' = [op |-> "get", original |-> Str(original), serial |-> None,
                pattern |-> None, result |-> IndexGet(db, Str(original))]
    /\ UNCHANGED <<db, touched>>
    /\ IndexFrame

\* line 279: the pattern create_index searches a fragment with
WrapFragment(invitation_num) == <<"%">> \o invitation_num \o <<"%">>

Search(fragment) ==
    /\ pc = "index"
    /\ \E r \in IndexSearch(db, Str(WrapFragment(fragment))) :
          call' = [op |-> "search", original |-> None, serial |-> None,
                   pattern |-> Str(WrapFragment(fragment)), result |-> r]
    /\ UNCHANGED <<db, touched>>
    /\ IndexFrame

NextI ==
    \/ \E x \in Originals : Insert(x)
    \/ \E x \in Originals, s \in Serials : Update(x, s)
    \/ \E x \in Originals : Get(x)
    \/ \E f \in Fragments : Search(f)

SpecI == InitI /\ [][NextI]_vars

(***************************************************************************)
(* C9: what search finds                                                   *)
(***************************************************************************)
\* the fragment a search pattern '%fragment%' wraps
Unwrapped(pattern) == SubSeq(Text(pattern), 2, Len(Text(pattern)) - 1)

StoredOriginals == {db.rows[i].original : i \in DOMAIN db.rows}

\* C9: a search for '%fragment%' returns an original only if it contains the
\* fragment as a case-sensitive literal substring, and returns None when no
\* stored original contains it.
C9_SearchIsLiteralSubstring ==
    call.op = "search" =>
        LET fragment == Unwrapped(call.pattern)
        IN  /\ call.result.kind = "return"
            /\ ~call.result.value.null
                  => Contains(fragment, Text(call.result.value))
            /\ (\A o \in StoredOriginals : ~Contains(fragment, Text(o)))
                  => call.result.value = None

(***************************************************************************)
(* C10: get before and after update                                        *)
(***************************************************************************)
HasRow(original) == \E i \in DOMAIN db.rows : db.rows[i].original = original

\* C10 as claimed, second half: after update(X, S) has returned, get(X)
\* returns S.
C10_GetAfterAnyUpdate ==
    (call.op = "update" /\ call.result.kind = "return")
        => IndexGet(db, call.original) = Returns(call.serial)

\* C10 amended: get(X) returns None, and raises nothing, when no insert or
\* update was ever called with X, also while there is no table; and after
\* update(X, S) on an X that has a row, get(X) returns S, while after
\* update(X, S) on an X that has no row get(X) still returns None.
C10_GetAbsentOrUpdated ==
    /\ call.op = "get" /\ Text(call.original) \notin touched
          => call.result = Returns(None)
    /\ \A x \in Originals \ touched : IndexGet(db, Str(x)) = Returns(None)
    /\ (call.op = "update" /\ call.result.kind = "return")
          => IF HasRow(call.original)
             THEN IndexGet(db, call.original) = Returns(call.serial)
             ELSE IndexGet(db, call.original) = Returns(None)

\* an update of a row that held another serial, after which get gives the new
\* one, while some original was never touched and there are rows
C10_Witness ==
    /\ call.op = "update" /\ call.result.kind = "return"
    /\ HasRow(call.original)
    /\ IndexGet(db, call.original) = Returns(call.serial)
    /\ \E i \in DOMAIN db.rows :
          ~db.rows[i].serial.null /\ db.rows[i].original # call.original
    /\ Originals \ touched # {}

(***************************************************************************)
(* Paths                                                                   *)
(***************************************************************************)
\* os.path.join(a, b)
Join(a, b) ==
    IF StartsWith(b, <<"/">>) THEN b
    ELSE IF a = <<>> \/ a[Len(a)] = "/" THEN a \o b
    ELSE a \o <<"/">> \o b

\* os.path.basename
Basename(path) == LET parts == Split(path, "/") IN parts[Len(parts)]

RECURSIVE JoinSlash(_)
\* '/'.join(comps)
JoinSlash(comps) ==
    IF comps = <<>> THEN <<>>
    ELSE IF Len(comps) = 1 THEN Head(comps)
    ELSE Head(comps) \o <<"/">> \o JoinSlash(Tail(comps))

RECURSIVE NormComps(_, _, _)
\* the loop of posixpath.normpath over the components
NormComps(comps, new_comps, initial_slashes) ==
    IF comps = <<>> THEN new_comps
    ELSE LET comp == Head(comps)
         IN  IF comp \in {<<>>, <<".">>}
             THEN NormComps(Tail(comps), new_comps, initial_slashes)
             ELSE IF \/ comp # <<".", ".">>
                     \/ (initial_slashes = 0 /\ new_comps = <<>>)
                     \/ (new_comps # <<>> /\ new_comps[Len(new_comps)] = <<".", ".">>)
                  THEN NormComps(Tail(comps), Append(new_comps, comp), initial_slashes)
                  ELSE IF new_comps # <<>>
                       THEN NormComps(Tail(comps),
                                      SubSeq(new_comps, 1, Len(new_comps) - 1),
                                      initial_slashes)
                       ELSE NormComps(Tail(comps), new_comps, initial_slashes)

\* os.path.normpath
Normpath(path) ==
    LET initial_slashes ==
            IF ~StartsWith(path, <<"/">>) THEN 0
            ELSE IF StartsWith(path, <<"/", "/">>) /\ ~StartsWith(path, <<"/", "/", "/">>)
                 THEN 2 ELSE 1
        body == JoinSlash(NormComps(Split(path, "/"), <<>>, initial_slashes))
        whole == [i \in 1..initial_slashes |-> "/"] \o body
    IN  IF whole = <<>> THEN <<".">> ELSE whole

NoPath == [ok |-> FALSE, path |-> <<>>]

\* lines 126-132: the directory, or the Exception raised
destination(source, dest, root) ==
    IF StartsWith(dest, root) THEN NoPath
    ELSE IF ~StartsWith(source, root) THEN NoPath
    ELSE [ok |-> TRUE, path |-> Normpath(dest)]

\* the arguments of run and the quarantine option
ident_dir == <<"/","i">>
clean_dir == <<"/","c">>
quarantine == <<"/","q">>

\* lines 135-138: where quarantine_file copies filepath to
quarantine_name(filepath) ==
    LET full_quarantine_dir == destination(filepath, quarantine, ident_dir)
    IN  IF full_quarantine_dir.ok
        THEN [ok |-> TRUE,
              path |-> Join(full_quarantine_dir.path, Basename(filepath))]
        ELSE NoPath

DE_IDENTIFICATION_METHOD == <<"P","s","e","u","d","o","n","y","m","i","z","e","d"," ","b","y"," ","T","h","e"," ","C","a","n","c","e","r"," ","R","e","g","i","s","t","r","y"," ","o","f"," ","N","o","r","w","a","y">>
t_YES == <<"Y","E","S">>

\* a substitution that leaves the accession number as it was
SubstituteKeepingAccession(d, serial_num) ==
    [t \in DOMAIN d \cup {IDENTITY_REMOVED, DEIDENT_METHOD} |->
        IF t = IDENTITY_REMOVED THEN Str(t_YES)
        ELSE IF t = DEIDENT_METHOD THEN Str(DE_IDENTIFICATION_METHOD)
        ELSE d[t]]

\* lines 306-314: the accession number replaced and the two attributes set
Substitute(d, serial_num) ==
    [t \in DOMAIN d \cup {IDENTITY_REMOVED, DEIDENT_METHOD} |->
        IF t = ACCESSION_NUMBER THEN Str(serial_num)
        ELSE IF t = IDENTITY_REMOVED THEN Str(t_YES)
        ELSE IF t = DEIDENT_METHOD THEN Str(DE_IDENTIFICATION_METHOD)
        ELSE d[t]]

\* lines 301-302 and 316: the name run saves the record under
clean_name(source_path, serial_num) ==
    LET rel_destination_dir == Join(clean_dir, serial_num)
        destination_dir == destination(source_path, rel_destination_dir, ident_dir)
    IN  IF destination_dir.ok
        THEN [ok |-> TRUE,
              path |-> Join(destination_dir.path, Basename(source_path))]
        ELSE NoPath

(***************************************************************************)
(* The input: files under ident_dir, index files, links files              *)
(***************************************************************************)
MaxFiles == 2
MaxLinks == 2

NoDs == MkDs(<<>>)

Dicom(path, d) == [path |-> path, kind |-> "dicom", ds |-> d]

\* a record that passes every rule and has accession number A1
GoodA1 ==
    MkDs(<<<<ACCESSION_NUMBER, <<Str(<<"A","1">>)>>>>, <<MODALITY, <<Str(<<"M","R">>)>>>>,
           <<SERIES_DESCR, <<Str(<<"T","1">>)>>>>, <<PATIENT_NAME, <<Str(<<"D","o","e","^","J">>)>>>>,
           <<MANUFACTURER, <<Str(<<"A","C","M","E">>)>>>>>>)
GoodA2 ==
    MkDs(<<<<ACCESSION_NUMBER, <<Str(<<"A","2">>)>>>>, <<MODALITY, <<Str(<<"c","t">>)>>>>,
           <<TRANSFER_SYNTAX, <<Str(<<"1",".","2">>)>>>>>>)
ScreenSaveA2 ==
    MkDs(<<<<ACCESSION_NUMBER, <<Str(<<"A","2">>)>>>>, <<MODALITY, <<Str(<<"C","T">>)>>>>,
           <<SERIES_DESCR, <<Str(<<"S","a","v","e"," ","S","c","r","e","e","n">>)>>>>>>)
NoAccession ==
    MkDs(<<<<MODALITY, <<Str(<<"M","R">>)>>>>, <<SERIES_DESCR, <<Str(<<"T","1">>)>>>>>>)
NullManufacturerA1 ==
    MkDs(<<<<ACCESSION_NUMBER, <<Str(<<"A","1">>)>>>>, <<MODALITY, <<Str(<<"M","R">>)>>>>,
           <<MANUFACTURER, <<None>>>>>>)

\* the files a run may find: readable records, a file that is not DICOM
\* (InvalidDicomError), a file that cannot be read (IOError), a hidden file
RunFiles ==
    {Dicom(<<"/","i","/","a","/","f">>, GoodA1), Dicom(<<"/","i","/","b","/","f">>, GoodA2),
     Dicom(<<"/","i","/","b","/","k">>, ScreenSaveA2), Dicom(<<"/","i","/","g">>, NoAccession),
     Dicom(<<"/","i","/","h">>, NullManufacturerA1), Dicom(<<"/","i","/",".","h">>, GoodA1),
     [path |-> <<"/","i","/","x">>, kind |-> "invalid", ds |-> NoDs],
     [path |-> <<"/","i","/","y">>, kind |-> "ioerror", ds |-> NoDs]}

CreateFiles ==
    {f \in RunFiles : f.path \in {<<"/","i","/","a","/","f">>, <<"/","i","/","b","/","f">>, <<"/","i","/","g">>, <<"/","i","/",".","h">>, <<"/","i","/","x">>, <<"/","i","/","y">>}}

\* the sequences of at most n distinct members of S
SeqsOf(S, n) ==
    UNION {{q \in [1..k -> S] : \A i, j \in 1..k : i # j => q[i] # q[j]} : k \in 0..n}

\* index files a run may start on: per accession number no row, a row with
\* no serial number yet, or a row with one
RowFor(original, opt) ==
    IF opt = <<>> THEN <<>> ELSE <<[original |-> Str(original), serial |-> opt[1]]>>

RunIndexes ==
    {NewIndex} \cup
    {[open |-> TRUE, table |-> TRUE, rows |-> RowFor(<<"A","1">>, s1) \o RowFor(<<"A","2">>, s2)] :
        s1 \in {<<>>, <<None>>, <<Str(<<"S","1">>)>>, <<Str(<<"/","i","/","S">>)>>},
        s2 \in {<<>>, <<None>>, <<Str(<<".",".","/","S","2">>)>>}}

\* rows of a links file: [invitation number, serial number], or a blank line
LinkRows ==
    {<<<<"1">>, <<"S","1">>>>, <<<<"1">>, <<"S","2">>>>, <<<<"A">>, <<"S","2">>>>, <<<<"9">>, <<"S","1">>>>,
     <<<<"2">>, <<"S","1">>>>, <<>>}

hidden(f) == StartsWith(Basename(f.path), <<".">>)

NoTrail(fs) == [i \in DOMAIN fs |-> <<>>]

(***************************************************************************)
(* run(ident_dir, clean_dir)                                               *)
(*                                                                         *)
(* pc: "next" (walk_dicoms is asked for the next record), "check",         *)
(* "pseudonymize", "write" (a record is in hand), "exhausted" (the         *)
(* generator ended), "done" (run returned or raised).  files[pos] is the   *)
(* file in hand.  shutil.copyfile and os.makedirs are taken to succeed.    *)
(***************************************************************************)
InitRun ==
    /\ files \in SeqsOf(RunFiles, MaxFiles)
    /\ db \in RunIndexes
    /\ white_list \in {parse_white_list(<<[key |-> <<"8",",","6","0">>, allowed |-> <<<<"M","R">>, <<"C","T">>>>]>>),
                       parse_white_list(<<[key |-> <<"8",",","1","0","3","e">>, allowed |-> <<<<"*">>>>],
                                          [key |-> <<"1","0",",","1","0">>, allowed |-> <<<<"d","o","e","^","j">>>>]>>)}
    /\ ds0 = NoDs /\ ds = NoDs /\ verdict = Continue
    /\ call = NoCall /\ touched = {}
    /\ links = <<>> /\ linkPos = 0 /\ invitation_num_set = {}
    /\ pos = 0 /\ pc = "next" /\ ret = NotReturned
    /\ out = <<>> /\ quarantined = <<>> /\ closes = 0
    /\ trail = NoTrail(files)

RunFrame == UNCHANGED <<white_list, touched, files, links, linkPos, invitation_num_set>>

Step(name) == trail' = [trail EXCEPT ![pos] = Append(@, name)]

\* lines 134-140: quarantine_file(files[i].path, ident_dir, reason)
QuarantineFile(i, reason) ==
    quarantined' = Append(quarantined,
                          [path |-> quarantine_name(files[i].path).path,
                           src |-> i, reason |-> reason])

\* lines 120-124
CloseAll == closes' = closes + 1 /\ db' = IndexClose(db)

\* lines 244-245: a hidden file is passed over
WalkHidden ==
    /\ pc = "next" /\ pos < Len(files) /\ hidden(files[pos + 1])
    /\ pos' = pos + 1
    /\ UNCHANGED <<ds0, ds, verdict, db, call, pc, ret, out, quarantined, closes, trail>>
    /\ RunFrame

\* line 248: a record is read and yielded to run
WalkYield ==
    /\ pc = "next" /\ pos < Len(files) /\ ~hidden(files[pos + 1])
    /\ files[pos + 1].kind = "dicom"
    /\ pos' = pos + 1
    /\ ds0' = files[pos + 1].ds /\ ds' = files[pos + 1].ds
    /\ trail' = [trail EXCEPT ![pos + 1] = Append(@, "yielded")]
    /\ pc' = "check"
    /\ UNCHANGED <<verdict, db, call, ret, out, quarantined, closes>>
    /\ RunFrame

\* lines 249-252: IOError on read: close_all, and the generator ends
WalkReadError ==
    /\ pc = "next" /\ pos < Len(files) /\ ~hidden(files[pos + 1])
    /\ files[pos + 1].kind = "ioerror"
    /\ pos' = pos + 1
    /\ CloseAll
    /\ pc' = "exhausted"
    /\ UNCHANGED <<ds0, ds, verdict, call, ret, out, quarantined, trail>>
    /\ RunFrame

\* lines 253-256: not a DICOM file: quarantined (run walks with quarantine=True)
WalkInvalid ==
    /\ pc = "next" /\ pos < Len(files) /\ ~hidden(files[pos + 1])
    /\ files[pos + 1].kind = "invalid"
    /\ pos' = pos + 1
    /\ QuarantineFile(pos + 1, "Could not read DICOM file.")
    /\ UNCHANGED <<ds0, ds, verdict, db, call, pc, ret, out, closes, trail>>
    /\ RunFrame

\* os.walk has no more files: the generator ends
WalkEnd ==
    /\ pc = "next" /\ pos = Len(files)
    /\ pc' = "exhausted"
    /\ UNCHANGED <<ds0, ds, verdict, db, call, pos, ret, out, quarantined, closes, trail>>
    /\ RunFrame

\* a run that quarantines a flagged record and goes on with it (no continue)
RunQuarantineGoesOn ==
    /\ pc = "check"
    /\ LET v == check_quarantine(ds)
       IN  /\ v.kind = "return" /\ v.move
           /\ verdict' = v
           /\ QuarantineFile(pos, v.reason)
    /\ Step("flagged")
    /\ pc' = "pseudonymize"
    /\ UNCHANGED <<ds0, ds, db, call, pos, ret, out, closes>>
    /\ RunFrame

\* lines 288-292, check_quarantine flags the record
RunQuarantine ==
    /\ pc = "check"
    /\ LET v == check_quarantine(ds)
       IN  /\ v.kind = "return" /\ v.move
           /\ verdict' = v
           /\ QuarantineFile(pos, v.reason)
    /\ Step("flagged")
    /\ pc' = "next"
    /\ UNCHANGED <<ds0, ds, db, call, pos, ret, out, closes>>
    /\ RunFrame

\* line 288, check_quarantine raises: nothing in run catches it
RunCheckRaises ==
    /\ pc = "check"
    /\ LET v == check_quarantine(ds)
       IN  /\ v.kind = "raise"
           /\ verdict' = v
           /\ ret' = Raised(v.reason)
    /\ pc' = "done"
    /\ UNCHANGED <<ds0, ds, db, call, pos, out, quarantined, closes, trail>>
    /\ RunFrame

\* line 288, the record is not flagged
RunPass ==
    /\ pc = "check"
    /\ LET v == check_quarantine(ds)
       IN  /\ v.kind = "return" /\ ~v.move
           /\ verdict' = v
    /\ Step("passed")
    /\ pc' = "pseudonymize"
    /\ UNCHANGED <<ds0, ds, db, call, pos, ret, out, quarantined, closes>>
    /\ RunFrame

\* line 231: ds[ACCESSION_NUMBER] of a record without one is a KeyError,
\* which  except ValueError  does not catch
RunNoAccession ==
    /\ pc = "pseudonymize"
    /\ ACCESSION_NUMBER \notin DOMAIN ds
    /\ ret' = Raised("KeyError")
    /\ pc' = "done"
    /\ UNCHANGED <<ds0, ds, verdict, db, call, pos, out, quarantined, closes, trail>>
    /\ RunFrame

GetCall(original) ==
    [op |-> "get", original |-> original, serial |-> None, pattern |-> None,
     result |-> IndexGet(db, original)]

\* a run that does not catch the ValueError of pseudonymize
RunUnresolvedUncaught ==
    /\ pc = "pseudonymize"
    /\ ACCESSION_NUMBER \in DOMAIN ds
    /\ call' = GetCall(ds[ACCESSION_NUMBER])
    /\ call'.result = Returns(None)
    /\ ret' = Raised("ValueError")
    /\ pc' = "done"
    /\ UNCHANGED <<ds0, ds, verdict, db, pos, out, quarantined, closes, trail>>
    /\ RunFrame

\* lines 232-235 and 296-299: no serial number: ValueError, caught by run,
\* which quarantines the file
RunUnresolved ==
    /\ pc = "pseudonymize"
    /\ ACCESSION_NUMBER \in DOMAIN ds
    /\ call' = GetCall(ds[ACCESSION_NUMBER])
    /\ call'.result = Returns(None)
    /\ QuarantineFile(pos, "Error running pseudonymize function.")
    /\ Step("unresolved")
    /\ pc' = "next"
    /\ UNCHANGED <<ds0, ds, verdict, db, pos, ret, out, closes>>
    /\ RunFrame

\* lines 232-239: a serial number is found and the attributes are walked
RunPseudonymize ==
    /\ pc = "pseudonymize"
    /\ ACCESSION_NUMBER \in DOMAIN ds
    /\ call' = GetCall(ds[ACCESSION_NUMBER])
    /\ call'.result.kind = "return" /\ ~call'.result.value.null
    /\ ds' = walk(white_list, ds)
    /\ trail' = [trail EXCEPT ![pos] = @ \o <<"resolved", "filtered">>]
    /\ pc' = "write"
    /\ UNCHANGED <<ds0, verdict, db, pos, ret, out, quarantined, closes>>
    /\ RunFrame

\* lines 301-302: destination raises an Exception, which nothing catches
RunDestinationRaises ==
    /\ pc = "write"
    /\ ~clean_name(files[pos].path, Text(call.result.value)).ok
    /\ ret' = Raised("Exception")
    /\ pc' = "done"
    /\ UNCHANGED <<ds0, ds, verdict, db, call, pos, out, quarantined, closes, trail>>
    /\ RunFrame

\* lines 301-318: the record is saved under the clean root
RunSave ==
    /\ pc = "write"
    /\ LET serial_num == Text(call.result.value)
           name == clean_name(files[pos].path, serial_num)
       IN  /\ name.ok
           /\ ds' = Substitute(ds, serial_num)
           /\ out' = Append(out, [path |-> name.path, src |-> pos, ds |-> ds'])
    /\ Step("written")
    /\ pc' = "next"
    /\ UNCHANGED <<ds0, verdict, db, call, pos, ret, quarantined, closes>>
    /\ RunFrame

\* lines 319-322: save_as raises IOError: close_all, return False
RunSaveError ==
    /\ pc = "write"
    /\ LET serial_num == Text(call.result.value)
       IN  /\ clean_name(files[pos].path, serial_num).ok
           /\ ds' = Substitute(ds, serial_num)
    /\ CloseAll
    /\ ret' = Returned("False")
    /\ pc' = "done"
    /\ UNCHANGED <<ds0, verdict, call, pos, out, quarantined, trail>>
    /\ RunFrame

\* lines 324-325: the loop is over: close_all, return True
RunEnd ==
    /\ pc = "exhausted"
    /\ CloseAll
    /\ ret' = Returned("True")
    /\ pc' = "done"
    /\ UNCHANGED <<ds0, ds, verdict, call, pos, out, quarantined, trail>>
    /\ RunFrame

NextRun ==
    \/ WalkHidden \/ WalkYield \/ WalkReadError \/ WalkInvalid \/ WalkEnd
    \/ RunQuarantine \/ RunCheckRaises \/ RunPass
    \/ RunNoAccession \/ RunUnresolved \/ RunPseudonymize
    \/ RunDestinationRaises \/ RunSave \/ RunSaveError \/ RunEnd

SpecRun == InitRun /\ [][NextRun]_vars

(***************************************************************************)
(* Claims about run                                                        *)
(***************************************************************************)
\* file i was read as a record and yielded to run
Yielded(i) ==
    i \in 1..pos /\ files[i].kind = "dicom" /\ ~hidden(files[i])

\* run has the record of file i in hand
InHand(i) == i = pos /\ pc \in {"check", "pseudonymize", "write"}

Relocated(i) == \E k \in DOMAIN out : out[k].src = i
Quarantined(i) == \E k \in DOMAIN quarantined : quarantined[k].src = i

\* run stopped with the record of file i in hand
StoppedAt(i) ==
    pc = "done" /\ i = pos /\ Yielded(i) /\ ret # Returned("True")

\* the index as run read it (close_all closes it at the end)
IndexRead(original) == IndexGet([db EXCEPT !.open = TRUE], original)

Passes(d) == check_quarantine(d) = Return(FALSE, "")

\* the steps of file i hold a before b
Before(i, a, b) ==
    \E m, n \in DOMAIN trail[i] : m < n /\ trail[i][m] = a /\ trail[i][n] = b

\* what C2 asks of a record written to the clean root
WrittenOnlyIf(i) ==
    Relocated(i) =>
        /\ Passes(files[i].ds)
        /\ ACCESSION_NUMBER \in DOMAIN files[i].ds
        /\ IndexRead(files[i].ds[ACCESSION_NUMBER]).kind = "return"
        /\ ~IndexRead(files[i].ds[ACCESSION_NUMBER]).value.null
        /\ Before(i, "filtered", "written")
        /\ \A k \in DOMAIN out : out[k].src = i =>
              LET filtered == walk(white_list, files[i].ds)
              IN  /\ DOMAIN out[k].ds \ {IDENTITY_REMOVED, DEIDENT_METHOD}
                        = DOMAIN filtered
                  /\ \A t \in DOMAIN filtered \ {ACCESSION_NUMBER} :
                        out[k].ds[t] = filtered[t]

PlainName(serial_num) ==
    /\ serial_num \notin {<<>>, <<".">>, <<".", ".">>}
    /\ \A n \in DOMAIN serial_num : serial_num[n] # "/"

\* C4: a record written to the clean root carries, as its accession number,
\* the serial number the index's get gives for the accession number the record
\* was read with, carries (0012,0062) = YES and (0012,0063) = the constant
\* text, and is saved under the clean root joined with that serial number
\* (for a serial number that is a plain name: <clean root>/<serial>/<file name>).
C4_WrittenRecordCarriesSerial ==
    \A k \in DOMAIN out :
        LET f == files[out[k].src]
            got == IndexRead(f.ds[ACCESSION_NUMBER])
        IN  /\ got.kind = "return" /\ ~got.value.null
            /\ out[k].ds[ACCESSION_NUMBER] = got.value
            /\ out[k].ds[IDENTITY_REMOVED] = Str(<<"Y", "E", "S">>)
            /\ out[k].ds[DEIDENT_METHOD] = Str(DE_IDENTIFICATION_METHOD)
            /\ out[k].path
                  = Join(Normpath(Join(clean_dir, Text(got.value))), Basename(f.path))
            /\ PlainName(Text(got.value)) =>
                  out[k].path = clean_dir \o <<"/">> \o Text(got.value)
                                    \o <<"/">> \o Basename(f.path)

\* two records written, with different serial numbers
C4_Witness ==
    /\ Len(out) = 2
    /\ out[1].ds[ACCESSION_NUMBER] # out[2].ds[ACCESSION_NUMBER]
    /\ \E k \in DOMAIN out :
          /\ PlainName(Text(out[k].ds[ACCESSION_NUMBER]))
          /\ files[out[k].src].ds[ACCESSION_NUMBER] # out[k].ds[ACCESSION_NUMBER]

\* file i holds a record that passes check_quarantine and whose accession
\* number the index has no serial number for
Unresolvable(i) ==
    /\ files[i].kind = "dicom" /\ ~hidden(files[i])
    /\ Passes(files[i].ds)
    /\ ACCESSION_NUMBER \in DOMAIN files[i].ds
    /\ IndexRead(files[i].ds[ACCESSION_NUMBER]) = Returns(None)

\* C5: a record that passes check_quarantine and has no serial number in the
\* index (no row, or a row whose serial is NULL) is quarantined with the
\* pseudonymize error as reason and not written to the clean root, and run goes
\* on: to the next file if there is one, else to its normal end.
C5_UnresolvedIsQuarantined ==
    \A i \in DOMAIN files :
        (Unresolvable(i) /\ Yielded(i) /\ ~(i = pos /\ pc \in {"check", "pseudonymize"}))
            => /\ ~Relocated(i)
               /\ \E k \in DOMAIN quarantined :
                     /\ quarantined[k].src = i
                     /\ quarantined[k].reason = "Error running pseudonymize function."
                     /\ StartsWith(quarantined[k].path, quarantine)
               /\ i = pos =>
                     /\ pc \in {"next", "exhausted", "done"}
                     /\ pc # "next" => i = Len(files)
                     /\ ret \in {NotReturned, Returned("True")}

\* a record on a row with no serial number was quarantined and the record
\* after it was then written
C5_Witness ==
    \E i, j \in DOMAIN files :
        /\ i < j /\ Unresolvable(i) /\ Quarantined(i) /\ Relocated(j)
        /\ \E r \in DOMAIN db.rows :
              db.rows[r].original = files[i].ds[ACCESSION_NUMBER]

\* a read or a write failed with IOError
FatalIO ==
    \/ \E i \in 1..pos : files[i].kind = "ioerror" /\ ~hidden(files[i])
    \/ ret = Returned("False")

\* C6: no failure of one record aborts the run: unless a read or a write
\* failed with IOError, run returns True and every file that holds a record,
\* or is not DICOM, is in a terminal state.
C6_RecordErrorsNeverAbort ==
    (pc = "done" /\ ~FatalIO) =>
        /\ ret = Returned("True")
        /\ \A i \in DOMAIN files : ~hidden(files[i]) =>
              (Relocated(i) \/ Quarantined(i))

\* C7: after an IOError on a read or a write, no later file is gone through,
\* close_all has run exactly once and run returns False.
C7_FatalIOReturnsFalse ==
    (pc = "done" /\ FatalIO) =>
        /\ ret = Returned("False")
        /\ closes = 1
        /\ \A i \in DOMAIN files : i > pos => (~Relocated(i) /\ ~Quarantined(i))

(***************************************************************************)
(* create_index(ident_dir, links_file) on a fresh index file               *)
(*                                                                         *)
(* pc: "insert" (the loop over walk_dicoms), "links" (the loop over the    *)
(* rows of the links file), "done".                                        *)
(***************************************************************************)
InitCreate ==
    /\ files \in SeqsOf(CreateFiles, MaxFiles)
    /\ links \in UNION {[1..k -> LinkRows] : k \in 0..MaxLinks}
    /\ db = NewIndex /\ call = NoCall /\ touched = {}
    /\ white_list = parse_white_list(<<>>)
    /\ ds0 = NoDs /\ ds = NoDs /\ verdict = Continue
    /\ linkPos = 0 /\ invitation_num_set = {}
    /\ pos = 0 /\ pc = "insert" /\ ret = NotReturned
    /\ out = <<>> /\ quarantined = <<>> /\ closes = 0
    /\ trail = NoTrail(files)

CreateFrame == UNCHANGED <<white_list, verdict, files, links, out, quarantined, trail>>

\* lines 244-245 and 253-256: a hidden file, or a file that is not DICOM
\* (create_index walks with quarantine=False), is passed over
CreateSkip ==
    /\ pc = "insert" /\ pos < Len(files)
    /\ hidden(files[pos + 1]) \/ files[pos + 1].kind = "invalid"
    /\ pos' = pos + 1
    /\ UNCHANGED <<ds0, ds, db, call, touched, linkPos, invitation_num_set, pc,
                   ret, closes>>
    /\ CreateFrame

\* lines 260-261: the accession number of a record is inserted
CreateInsert ==
    /\ pc = "insert" /\ pos < Len(files) /\ ~hidden(files[pos + 1])
    /\ files[pos + 1].kind = "dicom"
    /\ ACCESSION_NUMBER \in DOMAIN files[pos + 1].ds
    /\ pos' = pos + 1
    /\ ds0' = files[pos + 1].ds /\ ds' = files[pos + 1].ds
    /\ LET original == files[pos + 1].ds[ACCESSION_NUMBER]
       IN  /\ call' = [op |-> "insert", original |-> original, serial |-> None,
                       pattern |-> None, result |-> IndexInsert(db, original)]
           /\ db' = IndexInsertDb(db, original)
           /\ touched' = touched \cup {Text(original)}
    /\ UNCHANGED <<linkPos, invitation_num_set, pc, ret, closes>>
    /\ CreateFrame

\* line 261: ds.AccessionNumber of a record without one is an AttributeError
CreateNoAccession ==
    /\ pc = "insert" /\ pos < Len(files) /\ ~hidden(files[pos + 1])
    /\ files[pos + 1].kind = "dicom"
    /\ ACCESSION_NUMBER \notin DOMAIN files[pos + 1].ds
    /\ pos' = pos + 1
    /\ ds0' = files[pos + 1].ds /\ ds' = files[pos + 1].ds
    /\ ret' = Raised("AttributeError")
    /\ pc' = "done"
    /\ UNCHANGED <<db, call, touched, linkPos, invitation_num_set, closes>>
    /\ CreateFrame

\* lines 249-252: IOError on read: close_all, the generator ends, and
\* create_index goes on to the links file
CreateReadError ==
    /\ pc = "insert" /\ pos < Len(files) /\ ~hidden(files[pos + 1])
    /\ files[pos + 1].kind = "ioerror"
    /\ pos' = pos + 1
    /\ CloseAll
    /\ pc' = "links"
    /\ UNCHANGED <<ds0, ds, call, touched, linkPos, invitation_num_set, ret>>
    /\ CreateFrame

\* no more files
CreateWalkEnd ==
    /\ pc = "insert" /\ pos = Len(files)
    /\ pc' = "links"
    /\ UNCHANGED <<ds0, ds, db, call, touched, pos, linkPos, invitation_num_set,
                   ret, closes>>
    /\ CreateFrame

\* an invitation number is never taken for a duplicate
IsDuplicateNever(invitation_num, seen) == FALSE

\* line 274
IsDuplicate(invitation_num, seen) == invitation_num \in seen

\* the row the loop is at has two columns
AtRow == pc = "links" /\ linkPos < Len(links) /\ Len(links[linkPos + 1]) = 2

\* line 272: a row that does not have two columns cannot be unpacked
CreateBadRow ==
    /\ pc = "links" /\ linkPos < Len(links) /\ Len(links[linkPos + 1]) # 2
    /\ linkPos' = linkPos + 1
    /\ ret' = Raised("ValueError")
    /\ pc' = "done"
    /\ UNCHANGED <<ds0, ds, db, call, touched, pos, invitation_num_set, closes>>
    /\ CreateFrame

\* lines 274-276: the invitation number was seen before: the row is skipped
CreateDuplicate ==
    /\ AtRow
    /\ IsDuplicate(links[linkPos + 1][1], invitation_num_set)
    /\ linkPos' = linkPos + 1
    /\ UNCHANGED <<ds0, ds, db, call, touched, pos, invitation_num_set, pc, ret,
                   closes>>
    /\ CreateFrame

SearchCall(invitation_num, r) ==
    [op |-> "search", original |-> None, serial |-> None,
     pattern |-> Str(WrapFragment(invitation_num)), result |-> r]

\* lines 278-279 on an index that close_all closed: search raises
CreateSearchClosed ==
    /\ AtRow
    /\ ~IsDuplicate(links[linkPos + 1][1], invitation_num_set)
    /\ linkPos' = linkPos + 1
    /\ invitation_num_set' = invitation_num_set \cup {links[linkPos + 1][1]}
    /\ \E r \in IndexSearch(db, Str(WrapFragment(links[linkPos + 1][1]))) :
          /\ r.kind = "raise"
          /\ call' = SearchCall(links[linkPos + 1][1], r)
          /\ ret' = Raised(r.exc)
    /\ pc' = "done"
    /\ UNCHANGED <<ds0, ds, db, touched, pos, closes>>
    /\ CreateFrame

\* lines 278-283: no accession number matches: the row is skipped
CreateNotFound ==
    /\ AtRow
    /\ ~IsDuplicate(links[linkPos + 1][1], invitation_num_set)
    /\ linkPos' = linkPos + 1
    /\ invitation_num_set' = invitation_num_set \cup {links[linkPos + 1][1]}
    /\ \E r \in IndexSearch(db, Str(WrapFragment(links[linkPos + 1][1]))) :
          /\ r = Returns(None)
          /\ call' = SearchCall(links[linkPos + 1][1], r)
    /\ UNCHANGED <<ds0, ds, db, touched, pos, pc, ret, closes>>
    /\ CreateFrame

\* lines 278-284: the accession number found is given the row's serial number
CreateUpdate ==
    /\ AtRow
    /\ ~IsDuplicate(links[linkPos + 1][1], invitation_num_set)
    /\ linkPos' = linkPos + 1
    /\ invitation_num_set' = invitation_num_set \cup {links[linkPos + 1][1]}
    /\ \E r \in IndexSearch(db, Str(WrapFragment(links[linkPos + 1][1]))) :
          /\ r.kind = "return" /\ ~r.value.null
          /\ call' = [op |-> "update", original |-> r.value,
                      serial |-> Str(links[linkPos + 1][2]),
                      pattern |-> Str(WrapFragment(links[linkPos + 1][1])),
                      result |-> IndexUpdate(db, r.value, Str(links[linkPos + 1][2]))]
          /\ db' = IndexUpdateDb(db, r.value, Str(links[linkPos + 1][2]))
          /\ touched' = touched \cup {Text(r.value)}
    /\ UNCHANGED <<ds0, ds, pos, pc, ret, closes>>
    /\ CreateFrame

\* the links file is read through: create_index returns
CreateEnd ==
    /\ pc = "links" /\ linkPos = Len(links)
    /\ ret' = Returned("None")
    /\ pc' = "done"
    /\ UNCHANGED <<ds0, ds, db, call, touched, pos, linkPos, invitation_num_set,
                   closes>>
    /\ CreateFrame

NextCreate ==
    \/ CreateSkip \/ CreateInsert \/ CreateNoAccession \/ CreateReadError
    \/ CreateWalkEnd \/ CreateBadRow \/ CreateDuplicate \/ CreateSearchClosed
    \/ CreateNotFound \/ CreateUpdate \/ CreateEnd

SpecCreate == InitCreate /\ [][NextCreate]_vars

(***************************************************************************)
(* C8: duplicate rows of the links file                                    *)
(***************************************************************************)
\* the row the loop is at repeats the invitation number of an earlier row
AtRepeatedRow ==
    /\ AtRow
    /\ \E n \in 1..linkPos :
          Len(links[n]) = 2 /\ links[n][1] = links[linkPos + 1][1]

\* C8: a row whose invitation number an earlier row of the links file had is
\* skipped: the step that reads it calls neither search nor update and leaves
\* every row of the index as it was, so only the first row with an invitation
\* number can set a serial number.
C8_DuplicateRowSkipped ==
    [][AtRepeatedRow =>
          /\ db' = db /\ call' = call /\ touched' = touched
          /\ linkPos' = linkPos + 1 /\ pc' = pc /\ ret' = ret
          /\ invitation_num_set' = invitation_num_set]_vars

\* both rows of the links file have the same invitation number and different
\* serial numbers, the first set its serial number, the second was read, and
\* the index holds the first
C8_Witness ==
    /\ pc = "done" /\ linkPos = 2 /\ Len(links) = 2
    /\ Len(links[1]) = 2 /\ Len(links[2]) = 2
    /\ links[1][1] = links[2][1] /\ links[1][2] # links[2][2]
    /\ call.op = "update" /\ call.serial = Str(links[1][2])
    /\ \E r \in DOMAIN db.rows : db.rows[r].serial = Str(links[1][2])

(***************************************************************************)
(* C11: update of an original that has no row                              *)
(***************************************************************************)
\* C11: update(original, serial) for an original that has no row raises
\* nothing and leaves every row as it was, in every index state, the state
\* before the first insert (no table yet) included.
C11_UpdateWithoutRowIsNoOp ==
    [][\A x \in Originals, s \in Serials :
          (Update(x, s) /\ ~HasRow(Str(x)))
              => /\ call'.result = Returns(None)
                 /\ db'.rows = db.rows]_vars

(***************************************************************************)
(* C12: one row per original                                               *)
(***************************************************************************)
RowsOf(original) == {i \in DOMAIN db.rows : db.rows[i].original = original}

\* C12: after any sequence of insert and update the index holds at most one
\* row per original; an insert raises nothing and leaves exactly one row for
\* its original, also when it is repeated; and the table exists only once an
\* insert has been made (it is created by the first insert, not before).
C12_OneRowPerOriginal ==
    /\ \A i, j \in DOMAIN db.rows :
          db.rows[i].original = db.rows[j].original => i = j
    /\ call.op = "insert"
          => /\ call.result = Returns(None)
             /\ db.table
             /\ Cardinality(RowsOf(call.original)) = 1
    /\ db.table => db.rows # <<>>

\* an insert of an original that already had a row (its serial is set, so it
\* was inserted and updated before), with another original in the index
C12_Witness ==
    /\ call.op = "insert"
    /\ \E i \in RowsOf(call.original) : ~db.rows[i].serial.null
    /\ Len(db.rows) >= 2

(***************************************************************************)
(* C13: the elements the filter never removes                              *)
(***************************************************************************)
ProtectedTags == {ACCESSION_NUMBER} \cup ALLOWED_FILE_META

\* the white list names the tag with values that leave the element's out
ListedButExcluded(w, d, tag) ==
    /\ tag \in DOMAIN w /\ w[tag] # <<>>
    /\ ~InList(<<"*">>, w[tag])
    /\ ~InList(Normalize(PyStr(d[tag])), w[tag])

\* C13: whatever the white list, the walk leaves the accession number
\* (0008,0050) and each of the seven file-meta elements in the record,
\* with the value it had.
C13_ProtectedTagsSurvive ==
    pc = "walked" =>
        \A tag \in ProtectedTags \cap DOMAIN ds0 :
            tag \in DOMAIN ds /\ ds[tag] = ds0[tag]

\* a walk that removed something from a record holding the accession number
\* and two file-meta elements, under a white list that names the accession
\* number and the transfer syntax with other values and does not name the
\* second file-meta element
C13_Witness ==
    /\ pc = "walked"
    /\ ACCESSION_NUMBER \in DOMAIN ds0
    /\ ListedButExcluded(white_list, ds0, ACCESSION_NUMBER)
    /\ TRANSFER_SYNTAX \in DOMAIN ds0
    /\ ListedButExcluded(white_list, ds0, TRANSFER_SYNTAX)
    /\ \E tag \in (ALLOWED_FILE_META \cap DOMAIN ds0) \ DOMAIN white_list :
          tag \in DOMAIN ds
    /\ DOMAIN ds # DOMAIN ds0

(***************************************************************************)
(* C14: the filter applied twice                                           *)
(***************************************************************************)
\* C14: the walk applied to a record the walk has already filtered removes
\* nothing: it gives the same record.
C14_FilterIdempotent ==
    pc = "walked" => walk(white_list, ds) = ds

\* a walk that removed two elements or more and kept one on the word of the
\* white list, so that the second walk has an element to ask about
C14_Witness ==
    /\ pc = "walked"
    /\ Cardinality(DOMAIN ds0 \ DOMAIN ds) >= 2
    /\ \E tag \in DOMAIN ds \ ProtectedTags :
          ~InList(<<"*">>, white_list[tag])

(***************************************************************************)
(* C15: multi-valued modality and image type                               *)
(***************************************************************************)
\* the predicate of the claim on one member of the modality: not null and,
\* trimmed and lower-cased, one of the allowed modalities
ModalityConforms(m) == ~m.null /\ Lower(Strip(Text(m))) \in modalities

\* the predicate of the claim on one member of the image type: null, or,
\* trimmed and lower-cased, without 'save'
ImageTypeConforms(m) == m.null \/ ~Contains(t_save, Lower(Strip(Text(m))))

AllConform(d, tag, Conforms(_)) ==
    \A i \in DOMAIN Members(d[tag]) : Conforms(Members(d[tag])[i])

\* C15: check_quarantine judges each member of the modality and of the image
\* type by the case-insensitive, trimmed predicate: a record with a member
\* that does not conform is quarantined, whatever the member's place and the
\* other members, and the reason "modality not allowed" is given only to a
\* record whose modality has a member that does not conform.
C15_EveryMemberSamePredicate ==
    pc = "checked" =>
        /\ (MODALITY \in DOMAIN ds /\ ~AllConform(ds, MODALITY, ModalityConforms))
              => (verdict.kind = "return" /\ verdict.move)
        /\ (IMAGE_TYPE \in DOMAIN ds /\ ~AllConform(ds, IMAGE_TYPE, ImageTypeConforms))
              => (verdict.kind = "return" /\ verdict.move)
        /\ verdict = Return(TRUE, "modality not allowed")
              => (MODALITY \in DOMAIN ds
                  /\ ~AllConform(ds, MODALITY, ModalityConforms))

(***************************************************************************)
(* C16: modality missing, modality not allowed                             *)
(***************************************************************************)
\* no value of the series description, trimmed and lower-cased, contains
\* 'patient protocol' or 'save'
SeriesDescrTriggersNoRule(d) ==
    SERIES_DESCR \in DOMAIN d =>
        \A i \in DOMAIN d[SERIES_DESCR].vals :
            LET v == Lower(Strip(d[SERIES_DESCR].vals[i]))
            IN  ~Contains(t_patient_protocol, v) /\ ~Contains(t_save, v)

\* C16: a record without a modality whose series description triggers no rule
\* is quarantined with the reason 'Modality missing'; a record (of such a
\* series description) whose modality is there with a value outside the
\* allowed list is quarantined with the reason 'modality not allowed'; and
\* 'Modality missing' is given only when the modality is absent, 'modality not
\* allowed' only when it is present.
C16_MissingOrNotAllowed ==
    pc = "checked" =>
        /\ (MODALITY \notin DOMAIN ds /\ SeriesDescrTriggersNoRule(ds))
              => verdict = Return(TRUE, "Modality missing")
        /\ (/\ MODALITY \in DOMAIN ds
            /\ ~AllConform(ds, MODALITY, ModalityConforms)
            /\ SeriesDescrTriggersNoRule(ds))
              => verdict = Return(TRUE, "modality not allowed")
        /\ verdict.reason = "Modality missing" => MODALITY \notin DOMAIN ds
        /\ verdict.reason = "modality not allowed" => MODALITY \in DOMAIN ds

(***************************************************************************)
(* C17: where files are written                                            *)
(***************************************************************************)
\* the path, normalized, lies under the root directory
Inside(path, root) == StartsWith(Normpath(path), Normpath(root) \o <<"/">>)

\* C17: whatever serial the index holds for a record ('..' and separators
\* included), the file run saves lies inside the clean root, and the file
\* quarantine_file copies to lies inside the quarantine root.
C17_WritesStayInsideRoots ==
    /\ \A k \in DOMAIN out : Inside(out[k].path, clean_dir)
    /\ \A k \in DOMAIN quarantined : Inside(quarantined[k].path, quarantine)

(***************************************************************************)
(* C18: the layout of the quarantine tree                                  *)
(***************************************************************************)
\* the path of a file of ident_dir relative to ident_dir
RelativePath(path) == SubSeq(path, Len(ident_dir) + 2, Len(path))

\* C18: a quarantined file is copied to the quarantine root under the path it
\* has relative to the input root, so that quarantined files of distinct source
\* paths have distinct quarantine paths.
C18_QuarantineMirrorsInput ==
    /\ \A k \in DOMAIN quarantined :
          quarantined[k].path =
              Join(quarantine, RelativePath(files[quarantined[k].src].path))
    /\ \A j, k \in DOMAIN quarantined :
          files[quarantined[j].src].path # files[quarantined[k].src].path
              => quarantined[j].path # quarantined[k].path

(***************************************************************************)
(* C19: the index-build phase run again on an index file that earlier runs *)
(* of create_index left behind (rows, some with a serial number), with an  *)
(* empty links file                                                        *)
(***************************************************************************)
InitRebuild ==
    /\ files \in SeqsOf(CreateFiles, MaxFiles)
    /\ links = <<>>
    /\ db \in RunIndexes /\ call = NoCall /\ touched = {}
    /\ white_list = parse_white_list(<<>>)
    /\ ds0 = NoDs /\ ds = NoDs /\ verdict = Continue
    /\ linkPos = 0 /\ invitation_num_set = {}
    /\ pos = 0 /\ pc = "insert" /\ ret = NotReturned
    /\ out = <<>> /\ quarantined = <<>> /\ closes = 0
    /\ trail = NoTrail(files)

NextRebuild ==
    \/ CreateSkip \/ CreateInsert \/ CreateNoAccession \/ CreateReadError
    \/ CreateWalkEnd \/ CreateEnd

SpecRebuild == InitRebuild /\ [][NextRebuild]_vars

\* C19: an insert of an original that has a row leaves every row as it was,
\* the serial of that row included; and no step of the index-build phase of
\* create_index, run on an index that holds rows already, changes or drops a
\* row the index held.
C19_InsertKeepsSerials ==
    [][/\ (CreateInsert /\ HasRow(call'.original)) => db'.rows = db.rows
       /\ pc = "insert" =>
             \A i \in DOMAIN db.rows :
                 i \in DOMAIN db'.rows /\ db'.rows[i] = db.rows[i]]_vars

\* the build phase is through and its last insert was of an original whose
\* row holds a serial, in an index with a row of another original that has none
C19_Witness ==
    /\ pc = "links" /\ db.open
    /\ call.op = "insert" /\ call.result = Returns(None)
    /\ \E i \in DOMAIN db.rows :
          db.rows[i].original = call.original /\ ~db.rows[i].serial.null
    /\ \E i \in DOMAIN db.rows :
          db.rows[i].original # call.original /\ db.rows[i].serial.null
    /\ pos = 2

(***************************************************************************)
(* C20: what reconciliation leaves in an index that was empty              *)
(***************************************************************************)
\* row k of the links file has the two columns, and its invitation number
\* did not appear in a row before it
FirstOccurrence(k) ==
    /\ Len(links[k]) = 2
    /\ \A j \in 1..(k - 1) : Len(links[j]) = 2 => links[j][1] # links[k][1]

\* the search create_index makes for row k matches the original
RowMatches(k, original) ==
    SqlLike(Str(WrapFragment(links[k][1])), original)

\* the rows of the links file whose fragment matches the original
MatchingRows(original) ==
    {k \in 1..Len(links) : FirstOccurrence(k) /\ RowMatches(k, original)}

Last(K) == CHOOSE k \in K : \A j \in K : j <= k

\* every serial in the index comes from a row of the links file, read already,
\* whose fragment matches the original of the index row
SerialsComeFromLinks ==
    \A i \in DOMAIN db.rows :
        ~db.rows[i].serial.null =>
            \E k \in 1..linkPos :
                /\ FirstOccurrence(k) /\ RowMatches(k, db.rows[i].original)
                /\ db.rows[i].serial = Str(links[k][2])

\* the index rows a step changes
ChangedRows == {i \in DOMAIN db.rows : db'.rows[i] # db.rows[i]}

\* C20 as claimed: after create_index on an index that was empty, every serial
\* comes from a links row whose fragment matches the original, and an original
\* that several distinct fragments match holds the serial of the last of those
\* rows.
C20_LastMatchingRowWins ==
    (pc = "done" /\ ret = Returned("None")) =>
        /\ SerialsComeFromLinks
        /\ \A i \in DOMAIN db.rows :
              Cardinality(MatchingRows(db.rows[i].original)) >= 2
                  => db.rows[i].serial =
                        Str(links[Last(MatchingRows(db.rows[i].original))][2])

\* C20 amended: starting from an empty index, every serial in the index comes
\* from a row of the links file whose fragment matches (as search matches) the
\* original; a row of the links file changes at most one index row, the one
\* search returned for its fragment, and gives it its serial whatever serial
\* an earlier row gave it (the last row that search resolved to an original
\* wins); the other originals that the fragment matches are left as they were.
C20_SerialsFromResolvingRows ==
    /\ []SerialsComeFromLinks
    /\ [][/\ Cardinality(ChangedRows) <= 1
          /\ CreateUpdate =>
                /\ call'.result = Returns(None)
                /\ RowMatches(linkPos', call'.original)
                /\ IndexGet(db', call'.original) = Returns(Str(links[linkPos'][2]))
                /\ \A i \in ChangedRows : db.rows[i].original = call'.original
          /\ (pc = "links" /\ ~CreateUpdate) => ChangedRows = {}]_vars

\* a row of the links file has overwritten the serial an earlier row gave the
\* original, while another original that its fragment matches has no serial
C20_Witness ==
    /\ call.op = "update" /\ pc = "links" /\ linkPos >= 2
    /\ IndexGet(db, call.original) = Returns(Str(links[linkPos][2]))
    /\ \E k \in 1..(linkPos - 1) :
          /\ FirstOccurrence(k) /\ RowMatches(k, call.original)
          /\ links[k][2] # links[linkPos][2]
    /\ \E i \in DOMAIN db.rows :
          /\ db.rows[i].original # call.original
          /\ RowMatches(linkPos, db.rows[i].original)
          /\ db.rows[i].serial.null

====
